---------------------------- MODULE Spec2Model ----------------------------
(***************************************************************************)
(* Lifecycle coordination of the benchmark charm.                          *)
(*                                                                         *)
(* Every unit runs LifecycleManager (benchmark/managers/lifecycle.py) in   *)
(* its own hooks.  A hook reads this unit's own lifecycle record, the      *)
(* records its peers have published in the peer relation, and the state of *)
(* its own workload service; it may start/stop/clean the workload and      *)
(* write this unit's own record.  What a hook writes reaches the peers     *)
(* only when the hook ends (Commit).                                       *)
(***************************************************************************)
EXTENDS Naturals, Integers, Sequences, FiniteSets

\* Number of units of the application.
NumUnits == 2

Units == 1 .. NumUnits

\* Number of worker processes the benchmark manager runs next to its own.
NumWorkers == 1

\* The tasks of a run: the manager (0) and its workers.
Tasks == 0 .. NumWorkers

\* The greatest run_count, the greatest duration (seconds) and the last second.
MaxRunCount == 2
MaxDuration == 2
MaxTime == 3

\* The greatest parallel_processes of the charm config.
MaxParallel == 3

\* DPBenchmarkLifecycleState
UNSET      == "unset"
PREPARING  == "preparing"
AVAILABLE  == "available"
RUNNING    == "running"
FAILED     == "failed"
COLLECTING == "collecting"
UPLOADING  == "uploading"
FINISHED   == "finished"
STOPPED    == "stopped"

DPBenchmarkLifecycleState ==
  {UNSET, PREPARING, AVAILABLE, RUNNING, FAILED, COLLECTING, UPLOADING, FINISHED, STOPPED}

\* DPBenchmarkLifecycleTransition
PREPARE == "prepare"
RUN     == "run"
STOP    == "stop"
CLEAN   == "clean"

DPBenchmarkLifecycleTransition == {PREPARE, RUN, STOP, CLEAN}

\* DPBenchmarkExecStatus: UNSET, RUNNING and STOPPED have the values of the lifecycle
\* states of the same names.
PREPARED == "prepared"
ERROR    == "error"

DPBenchmarkExecStatus == {UNSET, PREPARED, RUNNING, STOPPED, ERROR}

\* What BenchmarkState.check raises on a unit whose service status is not the
\* application's.
DPBenchmarkIsInWrongStateError == "DPBenchmarkIsInWrongStateError"

\* Python's None, as a result of next() and as a requested transition.
None == "None"

\* The LIFECYCLE_KEY of a unit's databag has never been written.
NoRecord == "norecord"

\* What build() raises for a state it has no class for.
ValueError == "ValueError"

VARIABLES
  lifecycle,     \* [unit -> the LIFECYCLE_KEY value in the unit's own databag, as the unit reads it]
  published,     \* [unit -> the LIFECYCLE_KEY value of the unit as its peers read it]
  svc,           \* [unit -> the systemd state of the unit's benchmark service]
  run_rendered,  \* [unit -> the service and parameter files on disk equal the present RUN render]
  topic,         \* the benchmark topic exists in the Kafka cluster
  test_name,     \* peers.test_name is not None
  recording,     \* whether the behaviour keeps mt (it does under SpecCalls)
  mt             \* the make_transition call of the last step, if the step made one

\* The benchmark execution status of benchmark_charm.py and core/state.py.
VARIABLES
  leader,        \* the unit for which unit.is_leader() holds
  exec_unit,     \* [unit -> the "status" key of the unit's databag in the peer relation]
  exec_app,      \* the "status" key of the application databag in the peer relation
  prepared,      \* [unit -> the service file and the workload parameter file exist]
  systemd        \* [unit -> the systemd state of the unit's dpe_benchmark service]

\* The run of BenchmarkManager (wrapper/process.py).
VARIABLES
  args,          \* WorkloadCLIArgsModel: run_count and duration
  clock,         \* int(time.time()), counted from the start of the run
  proc,          \* [task -> the state of the task's subprocess]
  pc,            \* [task -> where the task's process() coroutine stands]
  run_count      \* [task -> the local run_count of the task's process()]

\* The worker processes of the Kafka wrapper (charm.py, wrapper.py).
VARIABLES
  parallel_processes,  \* the charm config option parallel_processes
  joined,              \* the units in the peer relation
  workers              \* [unit -> the worker processes its wrapper launched: listen and stats port]

\* The workload lifecycle manager (managers/wokload_lifecycle.py).
VARIABLES
  issued         \* [unit -> the last call of WorkloadLifecycleManager.next on the unit]

status_vars == <<leader, exec_unit, exec_app, prepared, systemd>>
wrapper_vars == <<args, clock, proc, pc, run_count>>
mapping_vars == <<parallel_processes, joined, workers>>
others == <<status_vars, wrapper_vars, mapping_vars, issued>>
lifecycle_vars ==
  <<lifecycle, published, svc, run_rendered, topic, test_name, recording, mt>>

vars == <<lifecycle_vars, status_vars, wrapper_vars, mapping_vars, issued>>

ServiceStates == {"inactive", "active", "failed"}

-----------------------------------------------------------------------------
(* The workload driver and ConfigManager's readiness predicates.            *)

\* A unit's workload as the steps of one hook thread it along.
Workload(u) == [svc |-> svc[u], rr |-> run_rendered[u], topic |-> topic]

is_active(w) == w.svc = "active"

is_halted(w) == w.svc = "inactive"

\* _check(RUN): the files on disk equal what RUN renders now (test_name carries the
\* present second, so a render of an earlier second no longer compares equal).
_check(w) == w.rr

is_running(w) == _check(w) /\ is_active(w)

is_stopped(w) == is_halted(w)

is_failed(w) == w.svc = "failed"

is_prepared(w) == w.topic

is_cleaned(w) == ~w.topic

-----------------------------------------------------------------------------
(* The side-effecting calls of ConfigManager.  Each takes the workload w   *)
(* and the outcome the environment gives the call, and returns the         *)
(* workload after it with the call's return value in ret.                  *)

Ret(w, r) == [svc |-> w.svc, rr |-> w.rr, topic |-> w.topic, ret |-> r]

\* DPBenchmarkSystemdWorkloadBase.halt: service_stop if active, else is_halted().
halt(w, stop_ok) ==
  IF is_active(w)
    THEN IF stop_ok THEN Ret([w EXCEPT !.svc = "inactive"], TRUE) ELSE Ret(w, FALSE)
    ELSE Ret(w, is_halted(w))

\* ConfigManager.stop: halt(), False on an exception.
stop(w, stop_ok) == halt(w, stop_ok)

\* What can happen in ConfigManager.run: all goes well; rendering raises; restart()
\* raises; restart() returns False, which run() does not look at.
RunOutcomes == {"ok", "render_error", "restart_error", "restart_false"}

\* ConfigManager.run: render the RUN files, reload, restart; False on an exception,
\* True otherwise.
run(w, run_out) ==
  IF run_out = "ok" THEN Ret([w EXCEPT !.rr = TRUE, !.svc = "active"], TRUE)
  ELSE IF run_out = "render_error" THEN Ret(w, FALSE)
  ELSE IF run_out = "restart_error" THEN Ret([w EXCEPT !.rr = TRUE, !.svc = "failed"], FALSE)
  ELSE Ret([w EXCEPT !.rr = TRUE, !.svc = "failed"], TRUE)

\* KafkaConfigManager.clean: delete the topic (errors are logged), return is_cleaned().
clean(w, clean_ok) ==
  LET w1 == IF clean_ok THEN [w EXCEPT !.topic = FALSE] ELSE w
  IN  Ret(w1, is_cleaned(w1))

\* KafkaConfigManager.prepare: render the PREPARE files, clean, create the topic
\* (errors are logged), return is_prepared().
prepare(w, clean_ok, create_ok) ==
  LET w1 == [w EXCEPT !.rr = FALSE]
      w2 == clean(w1, clean_ok)
      w3 == IF create_ok THEN [w2 EXCEPT !.topic = TRUE] ELSE w2
  IN  Ret(w3, is_prepared(w3))

-----------------------------------------------------------------------------
(* LifecycleManager.make_transition                                         *)

\* One entry of the trace of a make_transition call: a call it made on the config
\* manager, with what the call returned.
Step(name, r) == <<name, r>>

\* m is [w, calls, ok]: the workload, the trace so far, and ok = FALSE once
\* make_transition has returned False.
After(m, r, steps) ==
  [w     |-> [svc |-> r.svc, rr |-> r.rr, topic |-> r.topic],
   calls |-> m.calls \o steps,
   ok    |-> r.ret]

\* `if not is_stopped() and not stop(): return False`
stop_unless_stopped(m, stop_ok) ==
  IF ~m.ok THEN m
  ELSE IF is_stopped(m.w)
    THEN [m EXCEPT !.calls = Append(@, Step("is_stopped", TRUE))]
    ELSE LET r == stop(m.w, stop_ok)
         IN  After(m, r, <<Step("is_stopped", FALSE), Step("stop", r.ret)>>)

\* `if not is_cleaned() and not clean(): return False`
clean_unless_cleaned(m, clean_ok) ==
  IF ~m.ok THEN m
  ELSE IF is_cleaned(m.w)
    THEN [m EXCEPT !.calls = Append(@, Step("is_cleaned", TRUE))]
    ELSE LET r == clean(m.w, clean_ok)
         IN  After(m, r, <<Step("is_cleaned", FALSE), Step("clean", r.ret)>>)

\* run_unless_running with the result of run() ignored.
run_unless_running_ignoring_run(m, run_out) ==
  IF ~m.ok THEN m
  ELSE IF is_running(m.w)
    THEN [m EXCEPT !.calls = Append(@, Step("is_running", TRUE))]
    ELSE LET r == run(m.w, run_out)
         IN  [After(m, r, <<Step("is_running", FALSE), Step("run", r.ret)>>)
                EXCEPT !.ok = TRUE]

\* `if not is_running() and not run(): return False`
run_unless_running(m, run_out) ==
  IF ~m.ok THEN m
  ELSE IF is_running(m.w)
    THEN [m EXCEPT !.calls = Append(@, Step("is_running", TRUE))]
    ELSE LET r == run(m.w, run_out)
         IN  After(m, r, <<Step("is_running", FALSE), Step("run", r.ret)>>)

\* The FAILED branch asking for a workload that is failed and stopped at once.
failed_and_stopped(m, stop_ok) ==
  IF ~m.ok THEN m
  ELSE [m EXCEPT !.calls = @ \o <<Step("is_failed", is_failed(m.w)),
                                   Step("is_stopped", is_stopped(m.w))>>,
                 !.ok = is_failed(m.w) /\ is_stopped(m.w)]

\* `if not is_failed() and not is_stopped() and not stop(): return False`
stop_unless_failed_or_stopped(m, stop_ok) ==
  IF ~m.ok THEN m
  ELSE IF is_failed(m.w)
    THEN [m EXCEPT !.calls = Append(@, Step("is_failed", TRUE))]
    ELSE stop_unless_stopped([m EXCEPT !.calls = Append(@, Step("is_failed", FALSE))], stop_ok)

\* make_transition's checks with the UNSET branch cleaning before it stops.
make_transition_checks_clean_first(w, new_state, stop_ok, clean_ok, run_out) ==
  LET m0 == [w |-> w, calls |-> <<>>, ok |-> TRUE]
      m1 == IF new_state = UNSET
              THEN stop_unless_stopped(clean_unless_cleaned(m0, clean_ok), stop_ok)
              ELSE m0
      m2 == IF new_state = AVAILABLE THEN stop_unless_stopped(m1, stop_ok) ELSE m1
      m3 == IF new_state = RUNNING THEN run_unless_running(m2, run_out) ELSE m2
      m4 == IF new_state = FAILED THEN stop_unless_failed_or_stopped(m3, stop_ok) ELSE m3
      m5 == IF new_state \in {FINISHED, STOPPED} THEN stop_unless_stopped(m4, stop_ok) ELSE m4
  IN  m5

\* The checks and side effects of make_transition(new_state), up to the write:
\* ok tells whether the write is reached (the call returns True).
make_transition_checks(w, new_state, stop_ok, clean_ok, run_out) ==
  LET m0 == [w |-> w, calls |-> <<>>, ok |-> TRUE]
      m1 == IF new_state = UNSET
              THEN clean_unless_cleaned(stop_unless_stopped(m0, stop_ok), clean_ok)
              ELSE m0
      m2 == IF new_state = AVAILABLE THEN stop_unless_stopped(m1, stop_ok) ELSE m1
      m3 == IF new_state = RUNNING THEN run_unless_running(m2, run_out) ELSE m2
      m4 == IF new_state = FAILED THEN stop_unless_failed_or_stopped(m3, stop_ok) ELSE m3
      m5 == IF new_state \in {FINISHED, STOPPED} THEN stop_unless_stopped(m4, stop_ok) ELSE m4
  IN  m5

\* A setter that writes the value to every unit's databag.
set_lifecycle_of_all(u, value) == [v \in Units |-> value]

\* PeerState.lifecycle setter on this unit's own databag.
set_lifecycle(u, value) == [lifecycle EXCEPT ![u] = value]

\* mt when the last step made no make_transition call.
NoCall ==
  [unit |-> 0, by |-> None, target |-> None, ret |-> FALSE, pre |-> None, calls |-> <<>>]

-----------------------------------------------------------------------------
(* LifecycleManager.current, the peer aggregate and next()                  *)

\* A getter that reads a missing key as STOPPED.
lifecycle_of_missing_as_stopped(value) ==
  IF value = NoRecord THEN STOPPED
  ELSE IF value \in DPBenchmarkLifecycleState THEN value
  ELSE ValueError

\* PeerState.lifecycle getter: DPBenchmarkLifecycleState(stored value or UNSET).  The
\* enum constructor raises ValueError for a value that names no member.
lifecycle_of(value) ==
  IF value = NoRecord THEN UNSET
  ELSE IF value \in DPBenchmarkLifecycleState THEN value
  ELSE ValueError

current(u) == lifecycle_of(lifecycle[u])

_get_value(phase) ==
  CASE phase = UNSET      -> 0
    [] phase = PREPARING  -> 1
    [] phase = AVAILABLE  -> 2
    [] phase = RUNNING    -> 3
    [] phase = FAILED     -> 4
    [] phase = COLLECTING -> 5
    [] phase = UPLOADING  -> 6
    [] phase = FINISHED   -> 7
    [] phase = STOPPED    -> 8

\* _compare_lifecycle_states with its operands exchanged.
_compare_lifecycle_states_reversed(neighbor, this) ==
  IF neighbor = this THEN 0 ELSE _get_value(this) - _get_value(neighbor)

_compare_lifecycle_states(neighbor, this) ==
  IF neighbor = this THEN 0 ELSE _get_value(neighbor) - _get_value(this)

\* The loop of _peers_state over the peers not yet visited, next_state being the
\* most advanced state seen so far and records what the peer relation holds for each
\* unit.  A getter that raises ends the loop with its exception.
RECURSIVE peers_loop(_, _, _)
peers_loop(records, todo, next_state) ==
  IF next_state = ValueError \/ todo = {} THEN next_state
  ELSE LET unit     == CHOOSE x \in todo : \A y \in todo : x <= y
           neighbor == lifecycle_of(records[unit])
       IN  IF neighbor = ValueError THEN ValueError
           ELSE peers_loop(records, todo \ {unit},
                           IF _compare_lifecycle_states(neighbor, next_state) > 0
                             THEN neighbor ELSE next_state)

\* The status property without its FAILED branch.
status_of_no_blocked(state) ==
  IF state = UNSET THEN "waiting"
  ELSE IF state = PREPARING THEN "maintenance"
  ELSE IF state = AVAILABLE THEN "waiting"
  ELSE IF state = RUNNING THEN "active"
  ELSE IF state = COLLECTING THEN "active"
  ELSE IF state = UPLOADING THEN "active"
  ELSE IF state = FINISHED THEN "active"
  ELSE "waiting"

\* The branches of LifecycleManager.status, state being what current() returns: the
\* class of the ops status it returns.
status_of(state) ==
  IF state = UNSET THEN "waiting"
  ELSE IF state = PREPARING THEN "maintenance"
  ELSE IF state = AVAILABLE THEN "waiting"
  ELSE IF state = RUNNING THEN "active"
  ELSE IF state = FAILED THEN "blocked"
  ELSE IF state = COLLECTING THEN "active"
  ELSE IF state = UPLOADING THEN "active"
  ELSE IF state = FINISHED THEN "active"
  ELSE "waiting"

\* LifecycleManager.status
status(u) == status_of(current(u))

\* peers.units(): the remote units of the peer relation.
units(u) == joined \ {u}

\* A peer aggregate that looks at no peer.
_peers_state_own_only(u) == lifecycle_of(lifecycle[u])

_peers_state(u) == peers_loop(published, units(u), lifecycle_of(lifecycle[u]))

\* _UnsetLifecycleState.next without the PREPARE rule.
_UnsetLifecycleState_next_no_prepare(u, transition) ==
  IF _compare_lifecycle_states(_peers_state(u), AVAILABLE) = 0 THEN AVAILABLE
  ELSE IF _compare_lifecycle_states(_peers_state(u), RUNNING) = 0 THEN RUNNING
  ELSE None

\* _UnsetLifecycleState.next refusing PREPARE when the peer aggregate is ahead of UNSET.
_UnsetLifecycleState_next_peers_first(u, transition) ==
  IF transition = PREPARE
    THEN IF _compare_lifecycle_states(_peers_state(u), UNSET) = 0 THEN PREPARING ELSE None
  ELSE IF _compare_lifecycle_states(_peers_state(u), AVAILABLE) = 0 THEN AVAILABLE
  ELSE IF _compare_lifecycle_states(_peers_state(u), RUNNING) = 0 THEN RUNNING
  ELSE None

\* The next() of each state class: the first rule that matches decides.
_UnsetLifecycleState_next(u, transition) ==
  IF transition = PREPARE THEN PREPARING
  ELSE IF _compare_lifecycle_states(_peers_state(u), AVAILABLE) = 0 THEN AVAILABLE
  ELSE IF _compare_lifecycle_states(_peers_state(u), RUNNING) = 0 THEN RUNNING
  ELSE None

\* _PreparingLifecycleState.next without the rule that leads to AVAILABLE.
_PreparingLifecycleState_next_never_available(u, transition) ==
  IF ~test_name THEN UNSET
  ELSE IF transition = CLEAN THEN UNSET
  ELSE IF is_failed(Workload(u)) THEN FAILED
  ELSE None

\* _PreparingLifecycleState.next asking is_prepared() before is_failed().
_PreparingLifecycleState_next_prepared_first(u, transition) ==
  IF ~test_name THEN UNSET
  ELSE IF transition = CLEAN THEN UNSET
  ELSE IF is_prepared(Workload(u)) THEN AVAILABLE
  ELSE IF is_failed(Workload(u)) THEN FAILED
  ELSE None

_PreparingLifecycleState_next(u, transition) ==
  IF ~test_name THEN UNSET
  ELSE IF transition = CLEAN THEN UNSET
  ELSE IF is_failed(Workload(u)) THEN FAILED
  ELSE IF is_prepared(Workload(u)) THEN AVAILABLE
  ELSE None

\* _AvailableLifecycleState.next without the rule that follows peers into RUNNING.
_AvailableLifecycleState_next_no_follow(u, transition) ==
  IF ~test_name THEN UNSET
  ELSE IF transition = CLEAN THEN UNSET
  ELSE IF transition = RUN THEN RUNNING
  ELSE None

_AvailableLifecycleState_next(u, transition) ==
  IF ~test_name THEN UNSET
  ELSE IF transition = CLEAN THEN UNSET
  ELSE IF transition = RUN THEN RUNNING
  ELSE IF _compare_lifecycle_states(_peers_state(u), RUNNING) = 0 THEN RUNNING
  ELSE None

\* _RunningLifecycleState.next without the rule that follows peers into STOPPED.
_RunningLifecycleState_next_no_peer_stop(u, transition) ==
  IF ~test_name THEN UNSET
  ELSE IF transition = CLEAN THEN UNSET
  ELSE IF transition = STOP THEN STOPPED
  ELSE IF is_failed(Workload(u)) THEN FAILED
  ELSE IF ~is_running(Workload(u)) THEN FINISHED
  ELSE None

_RunningLifecycleState_next(u, transition) ==
  IF ~test_name THEN UNSET
  ELSE IF transition = CLEAN THEN UNSET
  ELSE IF transition = STOP THEN STOPPED
  ELSE IF _compare_lifecycle_states(_peers_state(u), STOPPED) = 0 THEN STOPPED
  ELSE IF is_failed(Workload(u)) THEN FAILED
  ELSE IF ~is_running(Workload(u)) THEN FINISHED
  ELSE None

_FinishedLifecycleState_next(u, transition) ==
  IF ~test_name THEN UNSET
  ELSE IF transition = CLEAN THEN UNSET
  ELSE IF transition = STOP THEN STOPPED
  ELSE IF is_running(Workload(u)) THEN RUNNING
  ELSE IF transition = RUN THEN RUNNING
  ELSE IF is_failed(Workload(u)) THEN FAILED
  ELSE None

\* _FailedLifecycleState.next looking at a RUN request before the test name.
_FailedLifecycleState_next_run_first(u, transition) ==
  IF transition = RUN THEN RUNNING
  ELSE IF ~test_name THEN UNSET
  ELSE IF transition = CLEAN THEN UNSET
  ELSE IF is_running(Workload(u)) THEN RUNNING
  ELSE None

_FailedLifecycleState_next(u, transition) ==
  IF ~test_name THEN UNSET
  ELSE IF transition = CLEAN THEN UNSET
  ELSE IF is_running(Workload(u)) THEN RUNNING
  ELSE IF transition = RUN THEN RUNNING
  ELSE None

\* _StoppedLifecycleState.next without the RUN rule.
_StoppedLifecycleState_next_no_run(u, transition) ==
  IF ~test_name THEN UNSET
  ELSE IF transition = CLEAN THEN UNSET
  ELSE IF is_running(Workload(u)) THEN RUNNING
  ELSE IF is_failed(Workload(u)) THEN FAILED
  ELSE None

_StoppedLifecycleState_next(u, transition) ==
  IF ~test_name THEN UNSET
  ELSE IF transition = CLEAN THEN UNSET
  ELSE IF is_running(Workload(u)) THEN RUNNING
  ELSE IF transition = RUN THEN RUNNING
  ELSE IF is_failed(Workload(u)) THEN FAILED
  ELSE None

\* _LifecycleStateFactory.build followed by the built state's next(): build raises
\* ValueError for a state that has no class.
build(u, state, transition) ==
  IF state = UNSET THEN _UnsetLifecycleState_next(u, transition)
  ELSE IF state = PREPARING THEN _PreparingLifecycleState_next(u, transition)
  ELSE IF state = AVAILABLE THEN _AvailableLifecycleState_next(u, transition)
  ELSE IF state = RUNNING THEN _RunningLifecycleState_next(u, transition)
  ELSE IF state = FAILED THEN _FailedLifecycleState_next(u, transition)
  ELSE IF state = FINISHED THEN _FinishedLifecycleState_next(u, transition)
  ELSE IF state = STOPPED THEN _StoppedLifecycleState_next(u, transition)
  ELSE ValueError

\* A next() that answers None to the unit whose make_transition call came last.
next_after_call(u, transition) ==
  IF mt.unit = u THEN None ELSE build(u, current(u), transition)

\* LifecycleManager.next
next(u, transition) == build(u, current(u), transition)

-----------------------------------------------------------------------------
(* The state machine                                                        *)

TypeOK ==
  /\ lifecycle \in [Units -> DPBenchmarkLifecycleState \cup {NoRecord}]
  /\ published \in [Units -> DPBenchmarkLifecycleState \cup {NoRecord}]
  /\ svc \in [Units -> ServiceStates]
  /\ run_rendered \in [Units -> BOOLEAN]
  /\ topic \in BOOLEAN
  /\ test_name \in BOOLEAN
  /\ recording \in BOOLEAN
  /\ mt.unit \in Units \cup {0}
  /\ leader \in Units
  /\ exec_unit \in [Units -> DPBenchmarkExecStatus \cup {NoRecord}]
  /\ exec_app \in DPBenchmarkExecStatus \cup {NoRecord}
  /\ prepared \in [Units -> BOOLEAN]
  /\ systemd \in [Units -> ServiceStates]
  /\ args \in [run_count : 0 .. MaxRunCount, duration : 0 .. MaxDuration]
  /\ clock \in 0 .. MaxTime
  /\ proc \in [Tasks -> {"running", "exited", "failed", "killed"}]
  /\ pc \in [Tasks -> {"while", "body", "returned"}]
  /\ run_count \in [Tasks -> 0 .. MaxRunCount + 1]
  /\ parallel_processes \in 1 .. MaxParallel
  /\ joined \in SUBSET Units
  /\ \A u \in Units : issued[u].called \in BOOLEAN
  /\ \A u \in Units : \A i \in DOMAIN workers[u] : workers[u][i].sp = workers[u][i].p + 1

\* The execution status machine before anything happened: no status written, no
\* service file, unit 1 the leader.
IdleStatus ==
  /\ leader = 1
  /\ exec_unit = [u \in Units |-> NoRecord]
  /\ exec_app = NoRecord
  /\ prepared = [u \in Units |-> FALSE]
  /\ systemd = [u \in Units |-> "inactive"]

\* Every unit is in the peer relation and no wrapper has launched a worker.
IdleMapping ==
  /\ parallel_processes = 1
  /\ joined = Units
  /\ workers = [u \in Units |-> <<>>]

\* WorkloadLifecycleManager.next has not been called.
NotIssued == [called |-> FALSE, charm_state |-> None, is_executing |-> FALSE, ret |-> None]

IdleWorkload == issued = [u \in Units |-> NotIssued]

\* No run of the wrapper.
IdleWrapper ==
  /\ args = [run_count |-> 0, duration |-> 0]
  /\ clock = 0
  /\ proc = [t \in Tasks |-> "exited"]
  /\ pc = [t \in Tasks |-> "returned"]
  /\ run_count = [t \in Tasks |-> 0]

\* No unit has written a lifecycle record, no workload runs, nothing is prepared.
IdleLifecycle ==
  /\ lifecycle = [u \in Units |-> NoRecord]
  /\ published = [u \in Units |-> NoRecord]
  /\ svc = [u \in Units |-> "inactive"]
  /\ run_rendered = [u \in Units |-> FALSE]
  /\ topic = FALSE
  /\ test_name = FALSE
  /\ recording = FALSE
  /\ mt = NoCall

Init ==
  /\ IdleLifecycle
  /\ IdleStatus
  /\ IdleWrapper
  /\ IdleMapping
  /\ IdleWorkload

\* A hook of unit u starts only after the unit's previous hook has ended, which is
\* when what that hook wrote is published to the peers.
HookCanStart(u) == published[u] = lifecycle[u]

\* A handler path that calls nothing that changes state.
Skip ==
  /\ mt' = NoCall
  /\ UNCHANGED <<lifecycle, published, svc, run_rendered, topic, test_name, recording, others>>

\* The outcomes the environment can give the calls make_transition(new_state) makes
\* on workload w: one value where the call is not made.  service_stop is called
\* for an active service only, clean() for a topic that exists, run() for a
\* workload that is not running.
StopOutcomes(new_state, w) ==
  IF new_state \in {UNSET, AVAILABLE, FAILED, FINISHED, STOPPED} /\ is_active(w)
    THEN BOOLEAN
    ELSE {TRUE}

CleanOutcomes(new_state, w) ==
  IF new_state = UNSET /\ ~is_cleaned(w) THEN BOOLEAN ELSE {TRUE}

StartOutcomes(new_state, w) ==
  IF new_state = RUNNING /\ ~is_running(w) THEN RunOutcomes ELSE {"ok"}

\* make_transition writing the record before it runs the checks.
make_transition_write_first(u, by, new_state, w, stop_ok, clean_ok, run_out) ==
  LET m == make_transition_checks(w, new_state, stop_ok, clean_ok, run_out)
  IN  /\ lifecycle' = set_lifecycle(u, new_state)
      /\ svc' = [svc EXCEPT ![u] = m.w.svc]
      /\ run_rendered' = [run_rendered EXCEPT ![u] = m.w.rr]
      /\ topic' = m.w.topic
      /\ mt' = IF recording
                 THEN [unit |-> u, by |-> by, target |-> new_state, ret |-> m.ok,
                       pre |-> lifecycle[u], calls |-> m.calls]
                 ELSE NoCall
      /\ UNCHANGED <<published, test_name, recording, others>>

\* Unit u, in handler by, calls make_transition(new_state) with its workload being w:
\* the checks and side effects, then the write of its own record if none of them
\* returned False.
make_transition(u, by, new_state, w, stop_ok, clean_ok, run_out) ==
  LET m == make_transition_checks(w, new_state, stop_ok, clean_ok, run_out)
  IN  /\ lifecycle' = IF m.ok THEN set_lifecycle(u, new_state) ELSE lifecycle
      /\ svc' = [svc EXCEPT ![u] = m.w.svc]
      /\ run_rendered' = [run_rendered EXCEPT ![u] = m.w.rr]
      /\ topic' = m.w.topic
      /\ mt' = IF recording
                 THEN [unit |-> u, by |-> by, target |-> new_state, ret |-> m.ok,
                       pre |-> lifecycle[u], calls |-> m.calls]
                 ELSE NoCall
      /\ UNCHANGED <<published, test_name, recording, others>>

\* _on_peer_changed taking a next() of None for UNSET.
_on_peer_changed_none_as_unset(u) ==
  /\ HookCanStart(u)
  /\ LET next_state == IF next(u, None) = None THEN UNSET ELSE next(u, None)
     IN  IF next_state # ValueError /\ current(u) # next_state
           THEN \E stop_ok \in StopOutcomes(next_state, Workload(u)),
                   clean_ok \in CleanOutcomes(next_state, Workload(u)),
                   run_out \in StartOutcomes(next_state, Workload(u)) :
                  make_transition(u, "_on_peer_changed", next_state, Workload(u),
                                  stop_ok, clean_ok, run_out)
           ELSE Skip

\* PeerRelationHandler._on_peer_changed
_on_peer_changed(u) ==
  /\ HookCanStart(u)
  /\ LET next_state == next(u, None)
     IN  IF next_state \notin {None, ValueError} /\ current(u) # next_state
           THEN \E stop_ok \in StopOutcomes(next_state, Workload(u)),
                   clean_ok \in CleanOutcomes(next_state, Workload(u)),
                   run_out \in StartOutcomes(next_state, Workload(u)) :
                  make_transition(u, "_on_peer_changed", next_state, Workload(u),
                                  stop_ok, clean_ok, run_out)
           ELSE Skip

\* _on_new_peer_unit asking next(STOP) whatever the unit's state.
_on_new_peer_unit_every_state(u) ==
  /\ HookCanStart(u)
  /\ LET state == next(u, STOP)
     IN  IF state \in {None, ValueError}
           THEN Skip
           ELSE \E stop_ok \in StopOutcomes(state, Workload(u)),
                   clean_ok \in CleanOutcomes(state, Workload(u)),
                   run_out \in StartOutcomes(state, Workload(u)) :
                  make_transition(u, "_on_new_peer_unit", state, Workload(u),
                                  stop_ok, clean_ok, run_out)

\* PeerRelationHandler._on_new_peer_unit
_on_new_peer_unit(u) ==
  /\ HookCanStart(u)
  /\ IF current(u) \notin {UNSET, PREPARING, AVAILABLE}
       THEN LET state == next(u, STOP)
            IN  IF state \in {None, ValueError}
                  THEN Skip
                  ELSE \E stop_ok \in StopOutcomes(state, Workload(u)),
                          clean_ok \in CleanOutcomes(state, Workload(u)),
                          run_out \in StartOutcomes(state, Workload(u)) :
                         make_transition(u, "_on_new_peer_unit", state, Workload(u),
                                         stop_ok, clean_ok, run_out)
       ELSE Skip

\* The handler of an action (prepare, run, stop, clean) on unit u: it asks next() for
\* the state the requested transition leads to, fails the action when there is none,
\* and otherwise commits it with make_transition; a PREPARE that leads to PREPARING
\* prepares the workload first.
on_action(u, transition) ==
  /\ HookCanStart(u)
  /\ LET state == next(u, transition)
     IN  IF state \in {None, ValueError}
           THEN Skip
           ELSE IF transition = PREPARE /\ state = PREPARING
             THEN \E clean_ok \in BOOLEAN, create_ok \in BOOLEAN :
                    LET p == prepare(Workload(u), clean_ok, create_ok)
                        w == [svc |-> p.svc, rr |-> p.rr, topic |-> p.topic]
                    IN  IF p.ret
                          THEN make_transition(u, "on_action", state, w, TRUE, TRUE, "ok")
                          ELSE /\ run_rendered' = [run_rendered EXCEPT ![u] = w.rr]
                               /\ topic' = w.topic
                               /\ mt' = NoCall
                               /\ UNCHANGED <<lifecycle, published, svc, test_name, recording, others>>
             ELSE \E stop_ok \in StopOutcomes(state, Workload(u)),
                     clean_ok \in CleanOutcomes(state, Workload(u)),
                     run_out \in StartOutcomes(state, Workload(u)) :
                    make_transition(u, "on_action", state, Workload(u),
                                    stop_ok, clean_ok, run_out)

\* The hook of unit u ends: what it wrote to its databag becomes visible to the peers.
Commit(u) ==
  /\ published[u] # lifecycle[u]
  /\ published' = [published EXCEPT ![u] = lifecycle[u]]
  /\ mt' = NoCall
  /\ UNCHANGED <<lifecycle, svc, run_rendered, topic, test_name, recording, others>>

\* The benchmark service of unit u ends by itself.
ServiceExit(u) ==
  /\ svc[u] = "active"
  /\ svc' = [svc EXCEPT ![u] = "inactive"]
  /\ mt' = NoCall
  /\ UNCHANGED <<lifecycle, published, run_rendered, topic, test_name, recording, others>>

\* The benchmark service of unit u fails.
ServiceFail(u) ==
  /\ svc[u] = "active"
  /\ svc' = [svc EXCEPT ![u] = "failed"]
  /\ mt' = NoCall
  /\ UNCHANGED <<lifecycle, published, run_rendered, topic, test_name, recording, others>>

\* The clock reaches the next second: test_name (its name and int(time.time())) changes,
\* so no file rendered before equals a present render.
Tick ==
  /\ \E u \in Units : run_rendered[u]
  /\ run_rendered' = [u \in Units |-> FALSE]
  /\ mt' = NoCall
  /\ UNCHANGED <<lifecycle, published, svc, topic, test_name, recording, others>>

\* peers.test_name gets a value, or loses it.
SetTestName ==
  /\ test_name' = ~test_name
  /\ mt' = NoCall
  /\ UNCHANGED <<lifecycle, published, svc, run_rendered, topic, recording, others>>

Next ==
  \/ \E u \in Units : _on_peer_changed(u)
  \/ \E u \in Units : _on_new_peer_unit(u)
  \/ \E u \in Units, transition \in DPBenchmarkLifecycleTransition : on_action(u, transition)
  \/ \E u \in Units : Commit(u)
  \/ \E u \in Units : ServiceExit(u)
  \/ \E u \in Units : ServiceFail(u)
  \/ Tick
  \/ SetTestName

Spec == Init /\ [][Next]_vars

\* The same program, observed: every make_transition call is kept in mt for the step
\* that follows it.
InitCalls ==
  /\ lifecycle = [u \in Units |-> NoRecord]
  /\ published = [u \in Units |-> NoRecord]
  /\ svc = [u \in Units |-> "inactive"]
  /\ run_rendered = [u \in Units |-> FALSE]
  /\ topic = FALSE
  /\ test_name = FALSE
  /\ recording = TRUE
  /\ mt = NoCall
  /\ IdleStatus
  /\ IdleWrapper
  /\ IdleMapping
  /\ IdleWorkload

SpecCalls == InitCalls /\ [][Next]_vars


\* The scenario of a unit that leads the others into RUNNING: one unit has recorded and
\* published RUNNING with its workload started, the others are AVAILABLE, the topic
\* exists; the test name is set or not.
InitFollow ==
  \E a \in Units :
    /\ lifecycle = [u \in Units |-> IF u = a THEN RUNNING ELSE AVAILABLE]
    /\ published = [u \in Units |-> IF u = a THEN RUNNING ELSE AVAILABLE]
    /\ svc = [u \in Units |-> IF u = a THEN "active" ELSE "inactive"]
    /\ run_rendered = [u \in Units |-> u = a]
    /\ topic = TRUE
    /\ test_name \in BOOLEAN
    /\ recording = TRUE
    /\ mt = NoCall
    /\ IdleStatus
    /\ IdleWrapper
    /\ IdleMapping
    /\ IdleWorkload

\* The peer-changed handler of unit u that has a transition to make, every workload
\* start it asks for succeeding.
peer_changed_start_ok(u) ==
  /\ HookCanStart(u)
  /\ LET next_state == next(u, None)
     IN  /\ next_state \notin {None, ValueError}
         /\ current(u) # next_state
         /\ \E stop_ok \in StopOutcomes(next_state, Workload(u)),
               clean_ok \in CleanOutcomes(next_state, Workload(u)) :
              make_transition(u, "_on_peer_changed", next_state, Workload(u),
                              stop_ok, clean_ok, "ok")

\* No request reaches any unit and the test name stays as it is: the units handle
\* peer-changed events, their hooks end, services end or fail, and time passes.
NextFollow ==
  \/ \E u \in Units : peer_changed_start_ok(u)
  \/ \E u \in Units : Commit(u)
  \/ \E u \in Units : ServiceExit(u)
  \/ \E u \in Units : ServiceFail(u)
  \/ Tick

\* The peer-changed handler of unit u has a transition to make.
HasTransition(u) ==
  /\ HookCanStart(u)
  /\ next(u, None) \notin {None, ValueError}
  /\ current(u) # next(u, None)

\* Every hook ends, and a unit whose peer-changed handler has a transition to make
\* from some time on runs it again and again (weak fairness of the handler, its
\* being enabled written out as HasTransition).
Fairness ==
  \A u \in Units :
    /\ WF_vars(Commit(u))
    /\ []<>(~HasTransition(u)) \/ []<><<peer_changed_start_ok(u)>>_vars

SpecFollow == InitFollow /\ [][NextFollow]_vars /\ Fairness

-----------------------------------------------------------------------------
(* The benchmark execution status: DPBenchmarkService (benchmark/service.py),   *)
(* BenchmarkState (benchmark/core/state.py) and the handlers of DPBenchmarkCharm *)
(* (benchmark/benchmark_charm.py), which keeps it as its benchmark_status.       *)

\* DPBenchmarkService.is_prepared, is_running, is_failed, is_stopped on unit u.
DPBenchmarkService_is_prepared(u) == prepared[u]
DPBenchmarkService_is_running(u) == prepared[u] /\ systemd[u] = "active"
DPBenchmarkService_is_failed(u) == prepared[u] /\ systemd[u] = "failed"
DPBenchmarkService_is_stopped(u) ==
  /\ DPBenchmarkService_is_prepared(u)
  /\ ~DPBenchmarkService_is_running(u)
  /\ ~DPBenchmarkService_is_failed(u)

\* What service_restart and service_stop can do: succeed, or raise SystemdError, which
\* leaves the handler as DPBenchmarkServiceError.
SystemdOutcomes == {"ok", "error"}

\* DPBenchmarkService.run: restart a stopped or failed service.
DPBenchmarkService_run(u, out) ==
  IF DPBenchmarkService_is_stopped(u) \/ DPBenchmarkService_is_failed(u)
    THEN IF out = "ok" THEN "active" ELSE "failed"
    ELSE systemd[u]

\* DPBenchmarkService.stop: stop a running service.
DPBenchmarkService_stop(u, out) ==
  IF DPBenchmarkService_is_running(u) /\ out = "ok" THEN "inactive" ELSE systemd[u]

\* Whether run() or stop() on unit u raises with outcome out.
run_raises(u, out) ==
  (DPBenchmarkService_is_stopped(u) \/ DPBenchmarkService_is_failed(u)) /\ out = "error"
stop_raises(u, out) == DPBenchmarkService_is_running(u) /\ out = "error"

\* BenchmarkState.app_status and unit_status / get, on the statuses eu of the units.
app_status == IF exec_app = NoRecord THEN UNSET ELSE exec_app
unit_status(eu, u) == IF eu[u] = NoRecord THEN UNSET ELSE eu[u]

\* BenchmarkState.set: the unit's own databag.
BenchmarkState_set(eu, u, value) == [eu EXCEPT ![u] = value]

\* BenchmarkState.service_status
service_status(eu, u) ==
  IF ~DPBenchmarkService_is_prepared(u) /\ unit_status(eu, u) = UNSET THEN UNSET
  ELSE IF DPBenchmarkService_is_failed(u) THEN ERROR
  ELSE IF DPBenchmarkService_is_running(u) THEN RUNNING
  ELSE IF DPBenchmarkService_is_stopped(u) /\ unit_status(eu, u) = STOPPED THEN STOPPED
  ELSE PREPARED

\* BenchmarkState._has_error_happened
_has_error_happened(eu, u) ==
  \/ \E unit \in units(u) : eu[unit] = ERROR
  \/ unit_status(eu, u) = ERROR
  \/ app_status = ERROR

\* BenchmarkState.check on unit u: what it returns or raises (ret) and the statuses it
\* leaves (eu).  app_status() and unit_status() return members of the enum, which
\* are true, so the trivial case is that of a single planned unit.
BenchmarkState_check(u) ==
  IF NumUnits <= 1
    THEN [ret |-> service_status(exec_unit, u), eu |-> exec_unit]
  ELSE IF _has_error_happened(exec_unit, u)
    THEN [ret |-> ERROR, eu |-> exec_unit]
  ELSE LET eu == BenchmarkState_set(exec_unit, u, service_status(exec_unit, u))
       IN  IF leader = u
             THEN [ret |-> service_status(eu, u), eu |-> eu]
           ELSE IF service_status(eu, u) # app_status
             THEN [ret |-> DPBenchmarkIsInWrongStateError, eu |-> eu]
           ELSE [ret |-> service_status(eu, u), eu |-> eu]

\* DPBenchmarkCharm.check: None for the wrong-state error.
check(u) ==
  LET c == BenchmarkState_check(u)
  IN  IF c.ret = DPBenchmarkIsInWrongStateError THEN [c EXCEPT !.ret = None] ELSE c

\* A handler of unit u ends having written the statuses eu, with the service files
\* and the service as given.
Ends(u, eu, files, service) ==
  /\ exec_unit' = eu
  /\ prepared' = [prepared EXCEPT ![u] = files]
  /\ systemd' = [systemd EXCEPT ![u] = service]
  /\ UNCHANGED <<leader, exec_app, lifecycle_vars, wrapper_vars, mapping_vars, issued>>

\* A handler that raises: the hook fails and nothing it wrote to the relation is kept.
Raises(u, service) == Ends(u, exec_unit, prepared[u], service)

\* DPBenchmarkCharm.on_prepare_action: a status other than UNSET fails the event and
\* goes on; so does a prepare() that returns False.
on_prepare_action(u) ==
  IF leader # u THEN Ends(u, exec_unit, prepared[u], systemd[u])
  ELSE LET c == check(u)
       IN  IF c.ret = None THEN Ends(u, c.eu, prepared[u], systemd[u])
           ELSE \E cmd_ok \in BOOLEAN, rendered \in BOOLEAN :
                  IF ~cmd_ok THEN Ends(u, c.eu, prepared[u], systemd[u])
                  ELSE Ends(u, BenchmarkState_set(c.eu, u, PREPARED),
                            prepared[u] \/ rendered, systemd[u])

\* on_run_action going on to run() and set(RUNNING) whatever the checked status.
on_run_action_any_status(u) ==
  LET c == check(u)
  IN  IF c.ret = None THEN Ends(u, c.eu, prepared[u], systemd[u])
      ELSE \E out \in SystemdOutcomes :
             IF run_raises(u, out) THEN Raises(u, DPBenchmarkService_run(u, out))
             ELSE Ends(u, BenchmarkState_set(c.eu, u, RUNNING), prepared[u],
                       DPBenchmarkService_run(u, out))

\* DPBenchmarkCharm.on_run_action
on_run_action(u) ==
  LET c == check(u)
  IN  IF c.ret = None THEN Ends(u, c.eu, prepared[u], systemd[u])
      ELSE IF c.ret # ERROR /\ c.ret \notin {PREPARED, STOPPED}
        THEN Ends(u, c.eu, prepared[u], systemd[u])
      ELSE \E out \in SystemdOutcomes :
             IF run_raises(u, out) THEN Raises(u, DPBenchmarkService_run(u, out))
             ELSE Ends(u, BenchmarkState_set(c.eu, u, RUNNING), prepared[u],
                       DPBenchmarkService_run(u, out))

\* DPBenchmarkCharm.on_stop_action
on_stop_action(u) ==
  LET c == check(u)
  IN  IF c.ret = None \/ c.ret # RUNNING THEN Ends(u, c.eu, prepared[u], systemd[u])
      ELSE \E out \in SystemdOutcomes :
             IF stop_raises(u, out) THEN Raises(u, systemd[u])
             ELSE Ends(u, BenchmarkState_set(c.eu, u, STOPPED), prepared[u],
                       DPBenchmarkService_stop(u, out))

\* DPBenchmarkCharm.on_clean_action: stop a running service, run the clean command,
\* unset() the service (stop it and remove its files, False on any error), write UNSET.
on_clean_action(u) ==
  IF leader # u THEN Ends(u, exec_unit, prepared[u], systemd[u])
  ELSE LET c == check(u)
       IN  IF c.ret = None THEN Ends(u, c.eu, prepared[u], systemd[u])
           ELSE \E out \in SystemdOutcomes, cmd_ok \in BOOLEAN, removed \in BOOLEAN :
                  IF c.ret = RUNNING /\ stop_raises(u, out) THEN Raises(u, systemd[u])
                  ELSE LET stopped == IF c.ret = RUNNING
                                        THEN DPBenchmarkService_stop(u, out)
                                        ELSE systemd[u]
                       IN  IF ~cmd_ok THEN Ends(u, c.eu, prepared[u], stopped)
                           ELSE IF removed /\ stopped # "active"
                             THEN Ends(u, BenchmarkState_set(c.eu, u, UNSET), FALSE, stopped)
                             ELSE Ends(u, BenchmarkState_set(c.eu, u, UNSET), prepared[u],
                                       stopped)

\* DPBenchmarkCharm._on_update_status: _set_status calls BenchmarkState.check, whose
\* wrong-state error nothing catches here.
_on_update_status(u) ==
  LET c == BenchmarkState_check(u)
  IN  IF c.ret = DPBenchmarkIsInWrongStateError THEN Raises(u, systemd[u])
      ELSE Ends(u, c.eu, prepared[u], systemd[u])

\* DPBenchmarkCharm._on_peer_changed
DPBenchmarkCharm_on_peer_changed(u) ==
  IF /\ leader # u
     /\ app_status = PREPARED
     /\ service_status(exec_unit, u) \notin {PREPARED, RUNNING}
    THEN Ends(u, BenchmarkState_set(exec_unit, u, PREPARED), prepared[u], systemd[u])
    ELSE Ends(u, exec_unit, prepared[u], systemd[u])

\* The dpe_benchmark service of unit u ends by itself, or fails.
BenchmarkEnds(u) ==
  /\ systemd[u] = "active"
  /\ \E service \in {"inactive", "failed"} : Ends(u, exec_unit, prepared[u], service)

\* Another unit becomes the leader.
LeaderElected(u) ==
  /\ leader # u
  /\ leader' = u
  /\ UNCHANGED <<exec_unit, exec_app, prepared, systemd, lifecycle_vars, wrapper_vars, mapping_vars, issued>>

NextStatus ==
  \/ \E u \in Units : on_prepare_action(u)
  \/ \E u \in Units : on_run_action(u)
  \/ \E u \in Units : on_stop_action(u)
  \/ \E u \in Units : on_clean_action(u)
  \/ \E u \in Units : _on_update_status(u)
  \/ \E u \in Units : DPBenchmarkCharm_on_peer_changed(u)
  \/ \E u \in Units : BenchmarkEnds(u)
  \/ \E u \in Units : LeaderElected(u)

SpecStatus == Init /\ [][NextStatus]_vars

-----------------------------------------------------------------------------
(* The run of the benchmark wrapper: BenchmarkProcess.process and               *)
(* BenchmarkManager._exec (benchmark/wrapper/process.py)                         *)

\* BenchmarkProcess.status: poll() and the return code of the task's subprocess; a
\* killed subprocess has a return code other than 0.
ProcessStatus(t) ==
  IF proc[t] = "running" THEN RUNNING
  ELSE IF proc[t] = "exited" THEN STOPPED
  ELSE ERROR

\* finish_time of process(): every task starts its process() as run() starts.
finish_time == args.duration

\* The condition of the while loop of process().
while_condition(t) ==
  \/ run_count[t] < args.run_count /\ args.run_count # 0
  \/ clock >= finish_time /\ args.duration # 0
  \/ ProcessStatus(t) = RUNNING /\ args.duration = 0

\* manager.start() has started every subprocess and run() has created one process()
\* task for each; the arguments are any run_count and duration.
InitRun ==
  /\ IdleLifecycle
  /\ IdleStatus
  /\ IdleMapping
  /\ IdleWorkload
  /\ args \in [run_count : 0 .. MaxRunCount, duration : 0 .. MaxDuration]
  /\ clock = 0
  /\ proc = [t \in Tasks |-> "running"]
  /\ pc = [t \in Tasks |-> "while"]
  /\ run_count = [t \in Tasks |-> 0]

\* Task t evaluates the while condition: it enters the body, or leaves the loop, stops
\* a subprocess that still runs (auto_stop) and returns.
loop_test(t) ==
  /\ pc[t] = "while"
  /\ IF while_condition(t)
       THEN /\ pc' = [pc EXCEPT ![t] = "body"]
            /\ UNCHANGED proc
       ELSE /\ pc' = [pc EXCEPT ![t] = "returned"]
            /\ proc' = IF ProcessStatus(t) = RUNNING
                         THEN [proc EXCEPT ![t] = "killed"] ELSE proc
  /\ UNCHANGED <<args, clock, run_count, lifecycle_vars, status_vars, mapping_vars, issued>>

\* Task t has read the output and slept: it counts a run if its subprocess does not
\* run any more and run_count is given, and goes back to the while condition.
loop_body(t) ==
  /\ pc[t] = "body"
  /\ pc' = [pc EXCEPT ![t] = "while"]
  /\ run_count' = IF ProcessStatus(t) # RUNNING /\ args.run_count # 0
                     /\ run_count[t] <= MaxRunCount
                    THEN [run_count EXCEPT ![t] = @ + 1] ELSE run_count
  /\ UNCHANGED <<args, clock, proc, lifecycle_vars, status_vars, mapping_vars, issued>>

\* The subprocess of task t exits, with return code 0 or another.
ProcessExits(t) ==
  /\ proc[t] = "running"
  /\ \E code \in {"exited", "failed"} : proc' = [proc EXCEPT ![t] = code]
  /\ UNCHANGED <<args, clock, pc, run_count, lifecycle_vars, status_vars, mapping_vars, issued>>

\* A second passes.
Second ==
  /\ clock < MaxTime
  /\ clock' = clock + 1
  /\ UNCHANGED <<args, proc, pc, run_count, lifecycle_vars, status_vars, mapping_vars, issued>>

NextRun ==
  \/ \E t \in Tasks : loop_test(t)
  \/ \E t \in Tasks : loop_body(t)
  \/ \E t \in Tasks : ProcessExits(t)
  \/ Second

\* asyncio runs every task that can go on, and time passes.
SpecRun ==
  /\ InitRun
  /\ [][NextRun]_vars
  /\ \A t \in Tasks : WF_vars(loop_test(t)) /\ WF_vars(loop_body(t))
  /\ WF_vars(Second)

-----------------------------------------------------------------------------
(* The worker processes of the Kafka wrapper: KafkaPeersRelationHandler.peers  *)
(* (charm.py) and KafkaWorkloadToProcessMapping._map_run (wrapper.py)           *)

\* list(S): the units of S in a list.
RECURSIVE list(_)
list(S) ==
  IF S = {} THEN <<>>
  ELSE LET x == CHOOSE y \in S : \A z \in S : y <= z
       IN  <<x>> \o list(S \ {x})

\* KafkaPeersRelationHandler.peers on unit u: for every unit of the relation and then
\* this unit, for every port in range(parallel_processes), "<address>:<8080 + 2 * port>",
\* kept as its two fields around the colon.
peers(u) ==
  LET us == list(units(u)) \o <<u>>
  IN  [i \in 1 .. Len(us) * parallel_processes |->
         <<us[((i - 1) \div parallel_processes) + 1],
           8080 + 2 * ((i - 1) % parallel_processes)>>]

\* _map_run: one benchmark-worker for every peer of args.peers, with -p the field
\* after the colon (peer.split(":")[1]) and -sp that port plus one.
_map_run(u) ==
  [i \in DOMAIN peers(u) |-> [p |-> peers(u)[i][2], sp |-> peers(u)[i][2] + 1]]

\* The operator sets parallel_processes.
ConfigChanged ==
  /\ \E n \in 1 .. MaxParallel : n # parallel_processes /\ parallel_processes' = n
  /\ UNCHANGED <<joined, workers, lifecycle_vars, status_vars, wrapper_vars, issued>>

\* Unit u joins the peer relation.
RelationJoined(u) ==
  /\ u \notin joined
  /\ joined' = joined \cup {u}
  /\ UNCHANGED <<parallel_processes, workers, lifecycle_vars, status_vars, wrapper_vars, issued>>

\* Unit u is removed: it leaves the peer relation and its wrapper is gone.
RelationDeparted(u) ==
  /\ u \in joined
  /\ joined # {u}
  /\ joined' = joined \ {u}
  /\ workers' = [workers EXCEPT ![u] = <<>>]
  /\ UNCHANGED <<parallel_processes, lifecycle_vars, status_vars, wrapper_vars, issued>>

\* The wrapper of unit u is started with the run command and the peers of this moment:
\* KafkaBenchmarkManager.start starts every worker _map_run gave it.
WrapperStarts(u) ==
  /\ u \in joined
  /\ workers[u] = <<>>
  /\ workers' = [workers EXCEPT ![u] = _map_run(u)]
  /\ UNCHANGED <<parallel_processes, joined, lifecycle_vars, status_vars, wrapper_vars, issued>>

\* The wrapper of unit u ends, and its workers with it.
WrapperStops(u) ==
  /\ workers[u] # <<>>
  /\ workers' = [workers EXCEPT ![u] = <<>>]
  /\ UNCHANGED <<parallel_processes, joined, lifecycle_vars, status_vars, wrapper_vars, issued>>

\* Some units are in the peer relation, parallel_processes has any value, and no
\* wrapper runs.
InitWorkers ==
  /\ IdleLifecycle
  /\ IdleStatus
  /\ IdleWrapper
  /\ parallel_processes \in 1 .. MaxParallel
  /\ joined \in (SUBSET Units) \ {{}}
  /\ workers = [u \in Units |-> <<>>]
  /\ IdleWorkload

NextWorkers ==
  \/ ConfigChanged
  \/ \E u \in Units : RelationJoined(u)
  \/ \E u \in Units : RelationDeparted(u)
  \/ \E u \in Units : WrapperStarts(u)
  \/ \E u \in Units : WrapperStops(u)

SpecWorkers == InitWorkers /\ [][NextWorkers]_vars

-----------------------------------------------------------------------------
(* WorkloadLifecycleManager (benchmark/managers/wokload_lifecycle.py)        *)

\* WorkloadLifecycleManager.next looking at is_executing() before the charm state.
WorkloadLifecycleManager_next_executing_first(charm_state, is_executing) ==
  IF is_executing THEN None
  ELSE IF charm_state = STOPPED THEN STOP
  ELSE IF charm_state = UNSET THEN CLEAN
  ELSE IF charm_state = PREPARING THEN PREPARE
  ELSE IF charm_state = RUNNING THEN RUN
  ELSE None

\* WorkloadLifecycleManager.next(charm_state), is_executing being what
\* workload.is_executing() answers.
WorkloadLifecycleManager_next(charm_state, is_executing) ==
  IF charm_state = STOPPED THEN STOP
  ELSE IF charm_state = UNSET THEN CLEAN
  ELSE IF is_executing THEN None
  ELSE IF charm_state = PREPARING THEN PREPARE
  ELSE IF charm_state = RUNNING THEN RUN
  ELSE None

\* The workload lifecycle manager of unit u is asked for the next transition, with
\* the unit's charm state and a workload that is executing or not.
WorkloadNext(u) ==
  /\ \E is_executing \in BOOLEAN :
       issued' = [issued EXCEPT ![u] =
                    [called |-> TRUE, charm_state |-> current(u),
                     is_executing |-> is_executing,
                     ret |-> WorkloadLifecycleManager_next(current(u), is_executing)]]
  /\ UNCHANGED <<lifecycle_vars, status_vars, wrapper_vars, mapping_vars>>

\* The units are in any charm state.
InitWorkload ==
  /\ lifecycle \in [Units -> DPBenchmarkLifecycleState \cup {NoRecord}]
  /\ published = lifecycle
  /\ svc = [u \in Units |-> "inactive"]
  /\ run_rendered = [u \in Units |-> FALSE]
  /\ topic = FALSE
  /\ test_name = FALSE
  /\ recording = FALSE
  /\ mt = NoCall
  /\ IdleStatus
  /\ IdleWrapper
  /\ IdleMapping
  /\ IdleWorkload

NextWorkload == \E u \in Units : WorkloadNext(u)

SpecWorkload == InitWorkload /\ [][NextWorkload]_vars

-----------------------------------------------------------------------------
(* Properties of make_transition, read off the call kept in mt             *)

\* The call in mt made the workload call name, which returned r.
Called(name, r) == \E i \in DOMAIN mt.calls : mt.calls[i] = Step(name, r)

\* The positions in mt.calls of the workload calls named in names.
Positions(names) == {i \in DOMAIN mt.calls : mt.calls[i][1] \in names}

\* C1: a make_transition call that returned False left the unit's record as it was
\* before the call, and a call that returned True left the record at the target
\* state: the record is written on the True path only.
C1_FalseLeavesRecord ==
  mt.unit # 0 =>
    /\ ~mt.ret => lifecycle[mt.unit] = mt.pre
    /\ mt.ret => lifecycle[mt.unit] = mt.target

\* A call returned False where the target differs from the record before it.
C1_Witness ==
  /\ mt.unit # 0
  /\ ~mt.ret
  /\ mt.pre # mt.target
  /\ lifecycle[mt.unit] = mt.pre

\* C2: make_transition(RUNNING) returned True, and recorded RUNNING, exactly when
\* is_running() answered True or run() was called and returned True; when the
\* workload was not running and run() returned False the call returned False and
\* the record is the one from before the call.
C2_RunningOnlyOnceStarted ==
  (mt.unit # 0 /\ mt.target = RUNNING) =>
    /\ mt.ret <=> (Called("is_running", TRUE) \/ Called("run", TRUE))
    /\ mt.ret => lifecycle[mt.unit] = RUNNING
    /\ Called("run", TRUE) \/ Called("run", FALSE) => Called("is_running", FALSE)
    /\ Called("run", FALSE) => ~mt.ret /\ lifecycle[mt.unit] = mt.pre

\* The workload was not running, run() failed, and the record was not RUNNING.
C2_Witness ==
  /\ mt.unit # 0
  /\ mt.target = RUNNING
  /\ mt.calls = <<Step("is_running", FALSE), Step("run", FALSE)>>
  /\ mt.pre # RUNNING

\* C3: when make_transition to UNSET, AVAILABLE, FINISHED or STOPPED returned True,
\* is_stopped() had answered True or stop() had returned True; for UNSET also
\* is_cleaned() had answered True or clean() had returned True; and on the way to
\* UNSET every clean call came after the stop calls.
C3_StoppedBeforeWrite ==
  (mt.unit # 0 /\ mt.target \in {UNSET, AVAILABLE, FINISHED, STOPPED}) =>
    /\ mt.ret => Called("is_stopped", TRUE) \/ Called("stop", TRUE)
    /\ mt.ret /\ mt.target = UNSET => Called("is_cleaned", TRUE) \/ Called("clean", TRUE)
    /\ \A i \in Positions({"is_cleaned", "clean"}) :
         /\ mt.target = UNSET
         /\ \E j \in Positions({"is_stopped", "stop"}) : j < i
         /\ \A j \in Positions({"is_stopped", "stop"}) : j < i

\* A transition to UNSET that had to stop the workload and then clean it.
C3_Witness ==
  /\ mt.unit # 0
  /\ mt.target = UNSET
  /\ mt.ret
  /\ mt.calls = <<Step("is_stopped", FALSE), Step("stop", TRUE),
                  Step("is_cleaned", FALSE), Step("clean", TRUE)>>


-----------------------------------------------------------------------------
(* Properties of next() and of the handlers                                *)

PeerAhead(u, state) == \E v \in units(u) : published[v] = state

\* C4: for every unit, in every reachable state of its record, of its peers' records
\* and of its workload, next(STOP) returns STOPPED.
C4_StopReturnsStopped == \A u \in Units : next(u, STOP) = STOPPED

\* C5: for every unit, in every reachable state of its record (UNSET included) and
\* of its peers' records, next(CLEAN) returns UNSET.
C5_CleanReturnsUnset == \A u \in Units : next(u, CLEAN) = UNSET

C7_PrepareRejectedWhenPeerAhead ==
  \A u \in Units : _peers_state(u) \in {AVAILABLE, RUNNING} => next(u, PREPARE) = None

\* C8: nothing keeps two units out of PREPARING together: an UNSET unit gets
\* PREPARING from next(PREPARE) whatever its peers have recorded, and a unit's record
\* reaches its peers only once its hook has ended.
C8_PrepareIgnoresPeers ==
  \A u \in Units : current(u) = UNSET => next(u, PREPARE) = PREPARING

\* Both units have recorded PREPARING and neither has yet seen any record of the
\* other: each decided on a peer aggregate of UNSET.
C8_Witness ==
  /\ \A u \in Units : lifecycle[u] = PREPARING
  /\ \A u \in Units : published[u] = NoRecord

\* C9: a step changes a unit's record only through a make_transition call of that
\* unit, a unit's record reaches its peers only as that unit wrote it, and every unit
\* has one recorded state.
C9_OwnRecordOnly ==
  [][\A v \in Units :
       /\ lifecycle'[v] # lifecycle[v] => mt'.unit = v /\ mt'.ret
       /\ published'[v] # published[v] => published'[v] = lifecycle[v]
       /\ current(v)' \in DPBenchmarkLifecycleState]_vars

\* A unit has just written its record while its peer holds a different record.
C9_Witness ==
  \E u \in Units, v \in Units :
    /\ u # v
    /\ mt.unit = u
    /\ mt.ret
    /\ lifecycle[v] \notin {NoRecord, lifecycle[u]}
    /\ lifecycle[u] # mt.pre

-----------------------------------------------------------------------------
(* Stopping, failing and the rules of the single states                    *)

\* C11, as the code has it: with the test name set, a RUNNING unit gets STOPPED from
\* next(STOP), and gets STOPPED from next(None) once a peer has published STOPPED;
\* a make_transition(STOPPED) that returns True has found the workload stopped or
\* has stopped it, leaves the service inactive and the record STOPPED, and one that
\* returns False leaves the record as it was.
C11_StopPropagatesWithTestName ==
  /\ \A u \in Units :
       (current(u) = RUNNING /\ test_name) =>
         /\ next(u, STOP) = STOPPED
         /\ PeerAhead(u, STOPPED) => next(u, None) = STOPPED
  /\ (mt.unit # 0 /\ mt.target = STOPPED) =>
       /\ mt.ret => /\ Called("is_stopped", TRUE) \/ Called("stop", TRUE)
                    /\ svc[mt.unit] = "inactive"
                    /\ lifecycle[mt.unit] = STOPPED
       /\ ~mt.ret => lifecycle[mt.unit] = mt.pre

\* A RUNNING unit's peer-changed handler has stopped its workload and recorded
\* STOPPED after a peer published STOPPED.
C11_Witness ==
  /\ mt.by = "_on_peer_changed"
  /\ mt.target = STOPPED
  /\ mt.pre = RUNNING
  /\ mt.ret
  /\ Called("stop", TRUE)
  /\ PeerAhead(mt.unit, STOPPED)

\* C11 as claimed: a RUNNING unit gets STOPPED from next(STOP), and from next(None)
\* when a peer has published STOPPED.
C11_StopPropagates ==
  \A u \in Units :
    current(u) = RUNNING =>
      /\ next(u, STOP) = STOPPED
      /\ PeerAhead(u, STOPPED) => next(u, None) = STOPPED

\* C12 (here with the test name set): when some peer has published STOPPED and the
\* unit's own record is not STOPPED, next(None) returns STOPPED, in any of UNSET,
\* PREPARING, AVAILABLE, RUNNING, FAILED and FINISHED.
C12_PeerStoppedFromEveryState ==
  \A u \in Units :
    (test_name /\ PeerAhead(u, STOPPED) /\ current(u) # STOPPED) => next(u, None) = STOPPED

\* C13, as the code has it: make_transition(FAILED) returns True, and records FAILED,
\* exactly when the workload reports failed, or reports stopped, or is active and
\* stop() succeeds; it stops nothing when the workload reports failed; and a call
\* that returned False left the record as it was.
C13_FailedWhenFailedOrStopped ==
  /\ \A w \in [svc : ServiceStates, rr : BOOLEAN, topic : BOOLEAN], stop_ok \in BOOLEAN :
       LET m == make_transition_checks(w, FAILED, stop_ok, TRUE, "ok")
       IN  /\ m.ok <=> (is_failed(w) \/ is_stopped(w) \/ (is_active(w) /\ stop_ok))
           /\ is_failed(w) => m.w = w
  /\ (mt.unit # 0 /\ mt.target = FAILED) =>
       /\ mt.ret => lifecycle[mt.unit] = FAILED
       /\ ~mt.ret => lifecycle[mt.unit] = mt.pre

\* A unit has recorded FAILED for a workload that reported failed, and so not stopped.
C13_Witness ==
  /\ mt.unit # 0
  /\ mt.target = FAILED
  /\ mt.ret
  /\ mt.calls = <<Step("is_failed", TRUE)>>
  /\ is_failed(Workload(mt.unit))
  /\ ~is_stopped(Workload(mt.unit))

\* C13 as claimed: make_transition(FAILED) returns True only if the workload reports
\* both failed and stopped.
C13_FailedOnlyWhenFailedAndStopped ==
  (mt.unit # 0 /\ mt.target = FAILED /\ mt.ret) =>
    /\ is_failed(Workload(mt.unit))
    /\ is_stopped(Workload(mt.unit))

\* C14, as the code has it: a unit in AVAILABLE, FAILED, STOPPED or FINISHED gets
\* RUNNING from next(RUN) when the test name is set, and UNSET when it is not.
C14_RunReturnsRunningWithTestName ==
  \A u \in Units :
    current(u) \in {AVAILABLE, FAILED, STOPPED, FINISHED} =>
      next(u, RUN) = IF test_name THEN RUNNING ELSE UNSET

\* A STOPPED unit with a test name whose workload is not running and is asked to RUN.
C14_Witness ==
  \E u \in Units :
    /\ current(u) = STOPPED
    /\ test_name
    /\ ~is_running(Workload(u))
    /\ next(u, RUN) = RUNNING

\* C14 as claimed: a unit in AVAILABLE, FAILED, STOPPED or FINISHED gets RUNNING from
\* next(RUN).
C14_RunReturnsRunning ==
  \A u \in Units :
    current(u) \in {AVAILABLE, FAILED, STOPPED, FINISHED} => next(u, RUN) = RUNNING

\* C15: an UNSET unit whose peer aggregate is UNSET gets PREPARING from next(PREPARE).
C15_PrepareWhenNoPeerAhead ==
  \A u \in Units :
    (current(u) = UNSET /\ _peers_state(u) = UNSET) => next(u, PREPARE) = PREPARING

\* A unit has written UNSET before (it was cleaned), no peer is ahead of it, and
\* PREPARE leads it to PREPARING again.
C15_Witness ==
  \E u \in Units :
    /\ lifecycle[u] = UNSET
    /\ _peers_state(u) = UNSET
    /\ HookCanStart(u)
    /\ next(u, PREPARE) = PREPARING

\* C16, as the code has it: for a PREPARING unit whose workload does not report
\* failed, next(None) is AVAILABLE when the workload reports prepared and None when it
\* does not, provided the test name is set; when it is not set, next(None) is UNSET.
C16_AvailableOncePreparedWithTestName ==
  \A u \in Units :
    (current(u) = PREPARING /\ ~is_failed(Workload(u))) =>
      next(u, None) = IF ~test_name THEN UNSET
                      ELSE IF is_prepared(Workload(u)) THEN AVAILABLE
                      ELSE None

\* A PREPARING unit with a test name whose workload reports prepared and not failed.
C16_Witness ==
  \E u \in Units :
    /\ current(u) = PREPARING
    /\ test_name
    /\ is_prepared(Workload(u))
    /\ ~is_failed(Workload(u))
    /\ next(u, None) = AVAILABLE

\* C16 as claimed: for a PREPARING unit whose workload does not report failed,
\* next(None) is AVAILABLE when the workload reports prepared and None when it does
\* not.
C16_AvailableOncePrepared ==
  \A u \in Units :
    (current(u) = PREPARING /\ ~is_failed(Workload(u))) =>
      next(u, None) = IF is_prepared(Workload(u)) THEN AVAILABLE ELSE None

\* C17 (here with the test name set): for a RUNNING unit with no STOPPED peer and a
\* workload that does not report failed, next(None) is FINISHED exactly when the
\* workload is halted, and None while the service is active.
C17_FinishedExactlyWhenHalted ==
  \A u \in Units :
    (test_name /\ current(u) = RUNNING /\ ~PeerAhead(u, STOPPED) /\ ~is_failed(Workload(u))) =>
      /\ next(u, None) = FINISHED <=> is_halted(Workload(u))
      /\ is_active(Workload(u)) => next(u, None) = None

-----------------------------------------------------------------------------
(* next() as a decision: what it reads, what it leaves alone               *)

\* What next() reads: the records, the workloads and the test name.
Inputs == <<lifecycle, published, svc, run_rendered, topic, test_name>>

Requests == DPBenchmarkLifecycleTransition \cup {None}

C19_RejectedLeavesUnitUntouched ==
  [][\A u \in Units :
       (next(u, None) \in {None, current(u)} /\ _on_peer_changed(u)) =>
         /\ UNCHANGED Inputs
         /\ mt' = NoCall]_vars

\* A PREPARING unit whose workload is not prepared yet: its peer-changed handler may
\* start, and next(None) is None.
C19_Witness ==
  \E u \in Units :
    /\ HookCanStart(u)
    /\ current(u) = PREPARING
    /\ ~is_prepared(Workload(u))
    /\ next(u, None) = None

\* C20: for every lifecycle state of the enum as the unit's recorded state,
\* COLLECTING and UPLOADING included, and every request, next() returns a state or
\* None: build raises nothing.
C20_NextNeverRaises ==
  \A u \in Units, state \in DPBenchmarkLifecycleState, t \in Requests :
    build(u, state, t) \in DPBenchmarkLifecycleState \cup {None}

-----------------------------------------------------------------------------
(* The peer aggregate and the status projection                             *)

\* What a lifecycle key of the peer relation can hold: a member of the enum, nothing,
\* or a string that names no member.
Invalid == "bogus"
StoredValues == DPBenchmarkLifecycleState \cup {NoRecord, Invalid}

\* C21: a peer record that holds no valid lifecycle state counts as UNSET in the peer
\* aggregate of the unit that reads it: the aggregate is what it would be with UNSET
\* stored in that record, and not an exception.
C21_InvalidPeerRecordReadsAsUnset ==
  \A u \in Units : \A p \in units(u) :
    peers_loop([published EXCEPT ![p] = Invalid], units(u), lifecycle_of(lifecycle[u]))
      = peers_loop([published EXCEPT ![p] = UNSET], units(u), lifecycle_of(lifecycle[u]))

\* The peers of u whose record has been written, as u reads them.
Writers(u) == {p \in units(u) : published[p] # NoRecord}

\* C22: a unit whose record has never been written reads as UNSET, and the peers
\* without a record add nothing to the peer aggregate: it is the aggregate over this
\* unit and the peers that have written one.
C22_UnwrittenReadsAsUnset ==
  \A u \in Units :
    /\ lifecycle[u] = NoRecord => current(u) = UNSET
    /\ _peers_state(u) = peers_loop(published, Writers(u), lifecycle_of(lifecycle[u]))
    /\ (Writers(u) = {} /\ lifecycle[u] = NoRecord) => _peers_state(u) = UNSET

\* A unit that has recorded a state beyond UNSET while a peer has no record yet.
C22_Witness ==
  \E u \in Units : \E p \in units(u) :
    /\ published[p] = NoRecord
    /\ lifecycle[u] \notin {NoRecord, UNSET}
    /\ _peers_state(u) = lifecycle[u]

\* The order of the lifecycle states.
Order ==
  <<UNSET, PREPARING, AVAILABLE, RUNNING, FAILED, COLLECTING, UPLOADING, FINISHED, STOPPED>>

Rank(state) == CHOOSE i \in DOMAIN Order : Order[i] = state

\* The states u reads: its own and its peers'.
Seen(u) == {current(u)} \cup {lifecycle_of(published[p]) : p \in units(u)}

\* C23: _compare_lifecycle_states orders the states as Order does, and the peer
\* aggregate of a unit is the state of greatest rank among its own recorded state
\* and the recorded states of its peers; it is not below the unit's own state, and
\* is the unit's own state when no peer is strictly ahead.
C23_AggregateIsMaximum ==
  /\ \A a \in DPBenchmarkLifecycleState, b \in DPBenchmarkLifecycleState :
       /\ _compare_lifecycle_states(a, b) > 0 <=> Rank(a) > Rank(b)
       /\ _compare_lifecycle_states(a, b) = 0 <=> a = b
  /\ \A u \in Units :
       /\ _peers_state(u) \in Seen(u)
       /\ \A state \in Seen(u) : Rank(state) <= Rank(_peers_state(u))
       /\ Rank(_peers_state(u)) >= Rank(current(u))
       /\ (\A p \in units(u) : Rank(lifecycle_of(published[p])) <= Rank(current(u)))
            => _peers_state(u) = current(u)
  /\ \A u \in Units, own \in DPBenchmarkLifecycleState :
       \A records \in [units(u) -> DPBenchmarkLifecycleState] :
         LET agg == peers_loop(records, units(u), own)
         IN  /\ agg \in {own} \cup {records[p] : p \in units(u)}
             /\ Rank(agg) >= Rank(own)
             /\ \A p \in units(u) : Rank(agg) >= Rank(records[p])

\* A unit with a recorded state of its own reads a peer that is strictly ahead.
C23_Witness ==
  \E u \in Units : \E p \in units(u) :
    /\ lifecycle[u] # NoRecord
    /\ published[p] # NoRecord
    /\ Rank(lifecycle_of(published[p])) > Rank(current(u))
    /\ current(u) # UNSET
    /\ _peers_state(u) = published[p]

\* C24: the status of a unit is a function of current() alone: waiting for UNSET,
\* AVAILABLE and STOPPED, maintenance for PREPARING, active for RUNNING, COLLECTING,
\* UPLOADING and FINISHED, blocked for FAILED and for no other state.
C24_StatusProjection ==
  /\ \A state \in DPBenchmarkLifecycleState :
       /\ state \in {UNSET, AVAILABLE, STOPPED} <=> status_of(state) = "waiting"
       /\ state = PREPARING <=> status_of(state) = "maintenance"
       /\ state \in {RUNNING, COLLECTING, UPLOADING, FINISHED} <=> status_of(state) = "active"
       /\ state = FAILED <=> status_of(state) = "blocked"
  /\ \A u \in Units :
       /\ status(u) = status_of(current(u))
       /\ status(u) = "blocked" <=> current(u) = FAILED

\* A unit that has recorded FAILED shows blocked while its peer shows another status.
C24_Witness ==
  \E u \in Units : \E p \in units(u) :
    /\ lifecycle[u] = FAILED
    /\ status(u) = "blocked"
    /\ status(p) # "blocked"


-----------------------------------------------------------------------------
(* Requests and what the peer-changed handler makes of them                 *)

\* C28: a unit that has just recorded RUNNING through a RUN request, whose workload
\* reports running and not failed and whose test name is set, is kept RUNNING by the
\* passive check of its peer-changed handler: next(None) is None or RUNNING, also
\* when the RUN came from STOPPED while a peer's record is still STOPPED.
C28_RunIsDurable ==
  [][\A u \in Units :
       (/\ on_action(u, RUN)
        /\ lifecycle[u] # RUNNING
        /\ lifecycle'[u] = RUNNING
        /\ test_name'
        /\ is_running(Workload(u))'
        /\ ~is_failed(Workload(u))')
         => next(u, None)' \in {None, RUNNING}]_vars

\* C30: whatever the unit's state, its view of the peers and its workload, next(STOP)
\* is not RUNNING.
C30_StopNeverReturnsRunning ==
  \A u \in Units : next(u, STOP) # RUNNING


\* Unit a has recorded and published RUNNING, the test name is set, and every other
\* unit is AVAILABLE or has followed into RUNNING.
Leads(a) ==
  /\ test_name
  /\ lifecycle[a] = RUNNING
  /\ published[a] = RUNNING
  /\ \A b \in units(a) : current(b) \in {AVAILABLE, RUNNING}

\* The same, whether the test name is set or not.
LeadsAnyTestName(a) ==
  /\ lifecycle[a] = RUNNING
  /\ published[a] = RUNNING
  /\ \A b \in units(a) : current(b) \in {AVAILABLE, RUNNING}

Followed(a) == \A b \in units(a) : lifecycle[b] = RUNNING

-----------------------------------------------------------------------------
(* The benchmark execution status                                           *)

\* C25: when the leader's unit status is set to a new value, the status at
\* application scope and the status at unit scope both have that value afterwards.
C25_LeaderSetsBothScopes ==
  [][\A value \in DPBenchmarkExecStatus :
       (/\ leader' = leader
        /\ unit_status(exec_unit, leader) # value
        /\ unit_status(exec_unit', leader) = value)
         => /\ exec_app' = value
            /\ exec_unit'[leader] = value]_vars

\* The moves of the execution status: the cycle, and ERROR entered from RUNNING.  What
\* follows ERROR is left open, and a return to UNSET from any status (a clean) is not
\* held against the cycle.
Moves ==
  {<<UNSET, PREPARED>>, <<PREPARED, RUNNING>>, <<RUNNING, STOPPED>>, <<STOPPED, UNSET>>,
   <<RUNNING, ERROR>>}
    \cup {<<ERROR, value>> : value \in DPBenchmarkExecStatus}
    \cup {<<value, UNSET>> : value \in DPBenchmarkExecStatus}

\* C26: whatever the actions, status checks and service failures, every change of a
\* unit's recorded execution status is a move of the cycle UNSET, PREPARED, RUNNING,
\* STOPPED, UNSET, or enters ERROR from RUNNING.
C26_StatusFollowsCycle ==
  [][\A u \in Units :
       unit_status(exec_unit', u) # unit_status(exec_unit, u) =>
         <<unit_status(exec_unit, u), unit_status(exec_unit', u)>> \in Moves]_vars


-----------------------------------------------------------------------------
(* The run of the benchmark wrapper                                         *)

\* run() has returned: every process() task has.
Returned == \A t \in Tasks : pc[t] = "returned"

\* C27: whatever run_count and duration, once the subprocess of the manager and of
\* every worker has exited, run() returns in the end; and when it has returned no
\* worker's status is RUNNING.
C27_RunTerminates ==
  /\ (\A t \in Tasks : proc[t] # "running") ~> Returned
  /\ [](Returned => \A t \in Tasks \ {0} : ProcessStatus(t) # RUNNING)


-----------------------------------------------------------------------------
(* A peer joins or departs                                                  *)

\* C31, as the code has it: the relation-joined/departed handler makes a transition
\* only on a unit in RUNNING, FAILED, FINISHED or STOPPED (a unit in UNSET, PREPARING
\* or AVAILABLE is left as it is); for a unit that was RUNNING or FINISHED the target
\* is STOPPED with the test name set and UNSET without it; a call that returned True
\* left the service not active and the record at the target; the service is still
\* active after the handler only if stop() was called and returned False, and then
\* the record is the one from before.
C31_NewPeerStopsWorkloadWithTestName ==
  mt.by = "_on_new_peer_unit" =>
    /\ lifecycle_of(mt.pre) \in {RUNNING, FAILED, FINISHED, STOPPED}
    /\ mt.pre \in {RUNNING, FINISHED} => mt.target = IF test_name THEN STOPPED ELSE UNSET
    /\ mt.ret => svc[mt.unit] # "active" /\ lifecycle[mt.unit] = mt.target
    /\ ~mt.ret => lifecycle[mt.unit] = mt.pre
    /\ svc[mt.unit] = "active" => Called("stop", FALSE) /\ ~mt.ret

\* The handler has stopped the workload of a RUNNING unit and recorded STOPPED.
C31_Witness ==
  /\ mt.by = "_on_new_peer_unit"
  /\ mt.pre = RUNNING
  /\ mt.ret
  /\ Called("stop", TRUE)
  /\ lifecycle[mt.unit] = STOPPED
  /\ svc[mt.unit] = "inactive"

\* C31 as claimed: after the handler has acted on a unit, the unit's service is not
\* active, and a unit that was RUNNING or FINISHED has recorded STOPPED.
C31_NewPeerStopsWorkload ==
  mt.by = "_on_new_peer_unit" =>
    /\ svc[mt.unit] # "active"
    /\ mt.pre \in {RUNNING, FINISHED} => lifecycle[mt.unit] = STOPPED


-----------------------------------------------------------------------------
(* The roll back to UNSET                                                   *)

-----------------------------------------------------------------------------
(* Running, as ConfigManager reports it                                     *)

\* C33: once a unit's workload is running (run() has rendered the RUN files and
\* started the service), is_running() stays True over every step that leaves the
\* unit's service active, however much time passes.
C33_RunningStaysObservable ==
  [][\A u \in Units :
       (is_running(Workload(u)) /\ svc'[u] = "active") => is_running(Workload(u))']_vars


-----------------------------------------------------------------------------
(* The ports of the Kafka workers                                           *)

\* C34: on every unit, no two of the worker processes its wrapper launched share a
\* port: the listen ports and the stats ports of any two workers are four different
\* ports.
C34_WorkerPortsDistinct ==
  \A u \in Units :
    \A i, j \in DOMAIN workers[u] :
      i # j => {workers[u][i].p, workers[u][i].sp} \cap {workers[u][j].p, workers[u][j].sp} = {}


-----------------------------------------------------------------------------
(* The guards of the prepare, run and stop actions                          *)

\* C35: a prepare action that writes the service files, or records PREPARED where the
\* status check had left another status, was invoked on the leader with a checked
\* status of UNSET; on another unit, or with another checked status, it does neither.
C35_PrepareOnlyOnLeaderWhenUnset ==
  [][\A u \in Units :
       (/\ on_prepare_action(u)
        /\ \/ prepared'[u] # prepared[u]
           \/ exec_unit'[u] = PREPARED /\ check(u).eu[u] # PREPARED)
         => leader = u /\ check(u).ret = UNSET]_vars

\* C36: a run action that starts the unit's service, or records RUNNING where the
\* status check had left another status, had a checked status of PREPARED, STOPPED or
\* ERROR; a stop action that stops the service, or records STOPPED where the check had
\* left another status, had a checked status of RUNNING; and an action whose check
\* reports the wrong-state mismatch leaves the service as it is.
C36_RunAndStopGuards ==
  [][\A u \in Units :
       /\ (/\ on_run_action(u)
           /\ \/ systemd'[u] = "active" /\ systemd[u] # "active"
              \/ exec_unit'[u] = RUNNING /\ check(u).eu[u] # RUNNING)
            => check(u).ret \in {PREPARED, STOPPED, ERROR}
       /\ (/\ on_stop_action(u)
           /\ \/ systemd'[u] # "active" /\ systemd[u] = "active"
              \/ exec_unit'[u] = STOPPED /\ check(u).eu[u] # STOPPED)
            => check(u).ret = RUNNING
       /\ ((on_run_action(u) \/ on_stop_action(u)) /\ check(u).ret = None)
            => systemd' = systemd]_vars

\* A unit's service has been started by a run action, and the unit recorded RUNNING.
C36_Witness ==
  \E u \in Units :
    /\ exec_unit[u] = RUNNING
    /\ DPBenchmarkService_is_running(u)


-----------------------------------------------------------------------------
(* The workload lifecycle manager                                           *)

\* C37: WorkloadLifecycleManager.next issues neither PREPARE nor RUN while the workload
\* is executing; it issues STOP for the charm state STOPPED and CLEAN for UNSET whether
\* the workload is executing or not; for every other charm state it returns None
\* while the workload is executing, and for every charm state other than STOPPED,
\* UNSET, PREPARING and RUNNING it returns None also when it is not.
C37_WorkloadNext ==
  \A u \in Units :
    issued[u].called =>
      LET c == issued[u].charm_state
          e == issued[u].is_executing
          r == issued[u].ret
      IN  /\ e => r \notin {PREPARE, RUN}
          /\ c = STOPPED => r = STOP
          /\ c = UNSET => r = CLEAN
          /\ (e /\ c \notin {STOPPED, UNSET}) => r = None
          /\ c \notin {STOPPED, UNSET, PREPARING, RUNNING} => r = None

\* STOP has been issued for the charm state STOPPED while the workload was executing.
C37_Witness ==
  \E u \in Units :
    /\ issued[u].called
    /\ issued[u].is_executing
    /\ issued[u].charm_state = STOPPED
    /\ issued[u].ret = STOP


-----------------------------------------------------------------------------
(* The duration of a run                                                    *)

\* C38: with a duration greater than 0, whatever run_count is, process() does not stop
\* a subprocess that still runs before the duration has elapsed, and a subprocess
\* that still runs when the duration has elapsed is stopped in the end.
C38_DurationHonoured ==
  /\ [][\A t \in Tasks :
          (args.duration > 0 /\ proc[t] = "running" /\ proc'[t] = "killed")
            => clock >= finish_time]_vars
  /\ \A t \in Tasks :
       (args.duration > 0 /\ clock >= finish_time /\ proc[t] = "running")
         ~> (proc[t] # "running")


=============================================================================
